---- MODULE Spec2Model ----
(***************************************************************************)
(* Model of the NCP5623 RGB LED driver (src/src/lib.rs).                   *)
(*                                                                         *)
(* A handle NCP5623 { i2c, address } turns each public operation into zero *)
(* or more one-byte writes on an I2C transport.  The transport is the      *)
(* environment: it answers every write with Ok or with one of its own      *)
(* failure values.  Each action below is one whole public call; `last`     *)
(* records what that call was given, what it returned and what it wrote.   *)
(***************************************************************************)
EXTENDS Integers, Sequences, FiniteSets

VARIABLES
    constructed,  \* a handle exists (a constructor has returned a Self)
    address,      \* NCP5623.address of the handle
    ctor,         \* which constructor produced the handle
    bound,        \* the address argument the handle was constructed with
    last,         \* record of the most recent public call
    pure          \* input and output of a private pure function under test

vars == <<constructed, address, ctor, bound, last, pure>>

----------------------------------------------------------------------------
(* Bounds and input domains *)

\* Half-width of the window of sampled u8 values around each pivot.
Edge == 1
\* Number of distinct failure values the transport can answer with.
NErr == 2

U8 == 0..255

Near(pivots) == {v \in U8 : \E p \in pivots : v >= p - Edge /\ v <= p + Edge}

\* Sampled parameter values: both ends of u8, both sides of the 5-bit limit,
\* and the tests' 0x11.
Values == Near({0, 31, 32, 255}) \cup {17}

\* Sampled values for the three-argument call.
RgbValues == {17} \cup {v \in U8 : v >= 32 - Edge /\ v <= 31 + Edge}

\* Sampled bus addresses: both sides of the 7-bit limit and the top of u8.
AddrValues == {127, 128, 255}

\* Failure values of the transport (I2C::Error).
Errs == 1..NErr

\* What the transport answers to one write.
TOk == <<"Ok">>
TErr(e) == <<"Err", e>>
Answers == {TOk} \cup {TErr(e) : e \in Errs}

\* A transport that fails its k-th write of a call with e (k = 0: never).
Transport(k, e) == [i \in 1..3 |-> IF i = k THEN TErr(e) ELSE TOk]
Transports == {Transport(0, 1)} \cup {Transport(k, e) : k \in 1..3, e \in Errs}

----------------------------------------------------------------------------
(* Constants, error type and command encoding *)

DEFAULT_ADDRESS == 56

\* Result<(), Error<E>>
Ok == <<"Ok">>
InvalidValue == <<"InvalidValue">>
WriteError(e) == <<"WriteError", e>>
InvalidAddress(a) == <<"InvalidAddress", a>>

\* enum Command, with `cmd as u8` its discriminant.
Command ==
    [Shutdown |-> 0, SetMaxCurrent |-> 32, SetRed |-> 64, SetGreen |-> 96,
     SetBlue |-> 128, UpwardTarget |-> 160, DownwardTarget |-> 192,
     DimmingStart |-> 224]

Commands == DOMAIN Command

\* The u8 `|` operator, bit by bit over the 8 bits.
RECURSIVE BitOrN(_, _, _)
BitOrN(a, b, n) ==
    IF n = 0 THEN 0
    ELSE (IF a % 2 = 1 \/ b % 2 = 1 THEN 1 ELSE 0)
         + 2 * BitOrN(a \div 2, b \div 2, n - 1)

\* The operator tabulated once over u8 x u8.
BitOrU8 == [a \in U8 |-> [b \in U8 |-> BitOrN(a, b, 8)]]

BitOr(a, b) == BitOrU8[a][b]

validate_value_64(value) == IF value > 63 THEN InvalidValue ELSE Ok

validate_value(value) == IF value > 31 THEN InvalidValue ELSE Ok

build_command_masked(cmd, value) == BitOr(Command[cmd], value % 16)

build_command(cmd, value) == BitOr(Command[cmd], value)

----------------------------------------------------------------------------
(* Calls: what an operation returns and writes, given the transport *)

\* One call's outcome: its result and the writes it issued, in order.
Ret(result, writes) == [result |-> result, writes |-> writes]

\* One transport write as issued by send_command: target address, the byte
\* slice, the (cmd, value) it encodes and the transport's answer.
WriteTo(addr, cmd, value, ans) ==
    [addr |-> addr, data |-> <<build_command(cmd, value)>>,
     cmd |-> cmd, value |-> value, ans |-> ans]

send_command_next_addr(self_address, cmd, value, ans) ==
    Ret(IF ans = TOk THEN Ok ELSE WriteError(ans[2]),
        <<WriteTo((self_address + 1) % 256, cmd, value, ans)>>)

send_command(self_address, cmd, value, ans) ==
    Ret(IF ans = TOk THEN Ok ELSE WriteError(ans[2]),
        <<WriteTo(self_address, cmd, value, ans)>>)

\* validate_value(&v)?; self.send_command(cmd, v)
validated_send(self_address, cmd, value, ans) ==
    IF validate_value(value) # Ok THEN Ret(validate_value(value), <<>>)
    ELSE send_command(self_address, cmd, value, ans)

shutdown_one(self_address, ans) == send_command(self_address, "Shutdown", 1, ans)

shutdown(self_address, ans) == send_command(self_address, "Shutdown", 0, ans)

set_red(self_address, v, ans) == validated_send(self_address, "SetRed", v, ans)

set_green_as_red(self_address, v, ans) ==
    validated_send(self_address, "SetRed", v, ans)

set_green(self_address, v, ans) == validated_send(self_address, "SetGreen", v, ans)

set_blue(self_address, v, ans) == validated_send(self_address, "SetBlue", v, ans)

set_max_current(self_address, v, ans) ==
    validated_send(self_address, "SetMaxCurrent", v, ans)

set_upward_target(self_address, v, ans) ==
    validated_send(self_address, "UpwardTarget", v, ans)

set_downward_target(self_address, v, ans) ==
    validated_send(self_address, "DownwardTarget", v, ans)

start_dimming(self_address, v, ans) ==
    validated_send(self_address, "DimmingStart", v, ans)

\* a?; b : run b only when a returned Ok, keeping a's writes.
Then(a, b) == IF a.result # Ok THEN a ELSE Ret(b.result, a.writes \o b.writes)

\* Validates each value only right before sending it.
set_rgb_lazy(self_address, r, g, b, t) ==
    Then(validated_send(self_address, "SetRed", r, t[1]),
    Then(validated_send(self_address, "SetGreen", g, t[2]),
         validated_send(self_address, "SetBlue", b, t[3])))

\* Sends green before red.
set_rgb_swapped(self_address, r, g, b, t) ==
    Then(Ret(validate_value(r), <<>>),
    Then(Ret(validate_value(g), <<>>),
    Then(Ret(validate_value(b), <<>>),
    Then(send_command(self_address, "SetGreen", g, t[1]),
    Then(send_command(self_address, "SetRed", r, t[2]),
         send_command(self_address, "SetBlue", b, t[3]))))))

\* Keeps sending after a failed write.
set_rgb_keep_going(self_address, r, g, b, t) ==
    LET s1 == send_command(self_address, "SetRed", r, t[1])
        s2 == send_command(self_address, "SetGreen", g, t[2])
        s3 == send_command(self_address, "SetBlue", b, t[3])
        all == s1.writes \o s2.writes \o s3.writes
    IN  Then(Ret(validate_value(r), <<>>),
        Then(Ret(validate_value(g), <<>>),
        Then(Ret(validate_value(b), <<>>),
             Ret(IF s1.result # Ok THEN s1.result
                 ELSE IF s2.result # Ok THEN s2.result ELSE s3.result, all))))

set_rgb(self_address, r, g, b, t) ==
    Then(Ret(validate_value(r), <<>>),
    Then(Ret(validate_value(g), <<>>),
    Then(Ret(validate_value(b), <<>>),
    Then(send_command(self_address, "SetRed", r, t[1]),
    Then(send_command(self_address, "SetGreen", g, t[2]),
         send_command(self_address, "SetBlue", b, t[3]))))))

\* Constructors: whether a handle results, its address, and the error.
new_unchecked(a) == [ok |-> TRUE, address |-> a, result |-> Ok]

new_default_address == new_unchecked(DEFAULT_ADDRESS)

new_128(a) ==
    IF a > 128 THEN [ok |-> FALSE, address |-> 0, result |-> InvalidAddress(a)]
    ELSE new_unchecked(a)

new(a) ==
    IF a > 127 THEN [ok |-> FALSE, address |-> 0, result |-> InvalidAddress(a)]
    ELSE new_unchecked(a)

----------------------------------------------------------------------------
(* State machine *)

\* The record of a call: the operation, its arguments, and its outcome.
Call(op, cmd, args, ret) ==
    [op |-> op, cmd |-> cmd, args |-> args,
     result |-> ret.result, writes |-> ret.writes]

NoCall == Call("none", "none", <<>>, Ret(<<"none">>, <<>>))
NoPure == [fn |-> "none", cmd |-> "Shutdown", value |-> 0, out |-> 0, res |-> Ok]

handle == <<constructed, address, ctor, bound>>

\* Before any constructor has run.
Init ==
    /\ constructed = FALSE
    /\ address = 0
    /\ ctor = "none"
    /\ bound = 0
    /\ last = NoCall
    /\ pure = NoPure

NewDefaultAddress ==
    /\ ~constructed
    /\ constructed' = new_default_address.ok
    /\ address' = new_default_address.address
    /\ ctor' = "new_default_address"
    /\ bound' = DEFAULT_ADDRESS
    /\ last' = Call("new_default_address", "none", <<>>,
                    Ret(new_default_address.result, <<>>))
    /\ UNCHANGED pure

NewUncheckedIn(S) ==
    /\ ~constructed
    /\ \E a \in S :
        /\ constructed' = new_unchecked(a).ok
        /\ address' = new_unchecked(a).address
        /\ ctor' = "new_unchecked"
        /\ bound' = a
        /\ last' = Call("new_unchecked", "none", <<a>>,
                        Ret(new_unchecked(a).result, <<>>))
    /\ UNCHANGED pure

NewIn(S) ==
    /\ ~constructed
    /\ \E a \in S :
        /\ constructed' = new(a).ok
        /\ address' = new(a).address
        /\ ctor' = IF new(a).ok THEN "new" ELSE "none"
        /\ bound' = IF new(a).ok THEN a ELSE 0
        /\ last' = Call("new", "none", <<a>>, Ret(new(a).result, <<>>))
    /\ UNCHANGED pure

Shutdown ==
    /\ constructed
    /\ \E ans \in Answers :
        last' = Call("shutdown", "none", <<>>, shutdown(address, ans))
    /\ UNCHANGED <<handle, pure>>

SetRedIn(S) ==
    /\ constructed
    /\ \E v \in S, ans \in Answers :
        last' = Call("set_red", "none", <<v>>, set_red(address, v, ans))
    /\ UNCHANGED <<handle, pure>>

SetGreenIn(S) ==
    /\ constructed
    /\ \E v \in S, ans \in Answers :
        last' = Call("set_green", "none", <<v>>, set_green(address, v, ans))
    /\ UNCHANGED <<handle, pure>>

SetBlueIn(S) ==
    /\ constructed
    /\ \E v \in S, ans \in Answers :
        last' = Call("set_blue", "none", <<v>>, set_blue(address, v, ans))
    /\ UNCHANGED <<handle, pure>>

SetRgb ==
    /\ constructed
    /\ \E r \in RgbValues, g \in RgbValues, b \in RgbValues, t \in Transports :
        last' = Call("set_rgb", "none", <<r, g, b>>, set_rgb(address, r, g, b, t))
    /\ UNCHANGED <<handle, pure>>

SetMaxCurrentIn(S) ==
    /\ constructed
    /\ \E v \in S, ans \in Answers :
        last' = Call("set_max_current", "none", <<v>>,
                     set_max_current(address, v, ans))
    /\ UNCHANGED <<handle, pure>>

SetUpwardTargetIn(S) ==
    /\ constructed
    /\ \E v \in S, ans \in Answers :
        last' = Call("set_upward_target", "none", <<v>>,
                     set_upward_target(address, v, ans))
    /\ UNCHANGED <<handle, pure>>

SetDownwardTargetIn(S) ==
    /\ constructed
    /\ \E v \in S, ans \in Answers :
        last' = Call("set_downward_target", "none", <<v>>,
                     set_downward_target(address, v, ans))
    /\ UNCHANGED <<handle, pure>>

StartDimmingIn(S) ==
    /\ constructed
    /\ \E v \in S, ans \in Answers :
        last' = Call("start_dimming", "none", <<v>>, start_dimming(address, v, ans))
    /\ UNCHANGED <<handle, pure>>

\* The public send_command, called directly.
SendCommand ==
    /\ constructed
    /\ \E cmd \in Commands, v \in Values, ans \in Answers :
        last' = Call("send_command", cmd, <<v>>, send_command(address, cmd, v, ans))
    /\ UNCHANGED <<handle, pure>>

\* Any sequence of public calls, on sampled addresses and values.
Next ==
    \/ NewDefaultAddress
    \/ NewUncheckedIn(AddrValues)
    \/ NewIn(AddrValues)
    \/ Shutdown
    \/ SetRedIn(Values)
    \/ SetGreenIn(Values)
    \/ SetBlueIn(Values)
    \/ SetRgb
    \/ SetMaxCurrentIn(Values)
    \/ SetUpwardTargetIn(Values)
    \/ SetDownwardTargetIn(Values)
    \/ StartDimmingIn(Values)
    \/ SendCommand

Spec == Init /\ [][Next]_vars

\* The constructors over every u8 address, followed by shutdown calls.
NextCtor ==
    \/ NewDefaultAddress
    \/ NewUncheckedIn(U8)
    \/ NewIn(U8)
    \/ Shutdown

SpecCtor == Init /\ [][NextCtor]_vars

\* A handle at the default address, as every test of the operations builds.
InitValue ==
    /\ constructed = new_default_address.ok
    /\ address = new_default_address.address
    /\ ctor = "new_default_address"
    /\ bound = DEFAULT_ADDRESS
    /\ last = Call("new_default_address", "none", <<>>,
                   Ret(new_default_address.result, <<>>))
    /\ pure = NoPure

\* The single-command operations over every u8 value.
NextValue ==
    \/ Shutdown
    \/ SetRedIn(U8)
    \/ SetGreenIn(U8)
    \/ SetBlueIn(U8)
    \/ SetMaxCurrentIn(U8)
    \/ SetUpwardTargetIn(U8)
    \/ SetDownwardTargetIn(U8)
    \/ StartDimmingIn(U8)

SpecValue == InitValue /\ [][NextValue]_vars

\* The private pure functions applied to every (cmd, value) pair.
InitPure ==
    /\ constructed = FALSE
    /\ address = 0
    /\ ctor = "none"
    /\ bound = 0
    /\ last = NoCall
    /\ pure \in [fn : {"input"}, cmd : Commands, value : U8, out : {0}, res : {Ok}]

BuildCommand ==
    /\ pure.fn = "input"
    /\ pure' = [pure EXCEPT !.fn = "build_command",
                            !.out = build_command(pure.cmd, pure.value)]
    /\ UNCHANGED <<handle, last>>

ValidateValue ==
    /\ pure.fn = "input"
    /\ pure' = [pure EXCEPT !.fn = "validate_value",
                            !.res = validate_value(pure.value)]
    /\ UNCHANGED <<handle, last>>

NextPure == BuildCommand \/ ValidateValue

SpecPure == InitPure /\ [][NextPure]_vars

----------------------------------------------------------------------------
(* Properties *)

Writes == {last.writes[i] : i \in 1..Len(last.writes)}

ValueOps ==
    {"set_red", "set_green", "set_blue", "set_max_current",
     "set_upward_target", "set_downward_target", "start_dimming"}

\* The high three bits and the low five bits of a byte.
High3(byte) == (byte \div 32) * 32
Low5(byte) == byte % 32

\* C1: a value-taking operation called with a value in 32..255 returns
\* InvalidValue and issues no transport write, whatever the transport answers.
C1_InvalidValueNoWrite ==
    (last.op \in ValueOps /\ last.args[1] > 31)
        => (last.result = InvalidValue /\ last.writes = <<>>)

C1_Witness ==
    /\ last.op = "start_dimming"
    /\ last.args = <<255>>
    /\ last.result = InvalidValue

\* C2: every byte written to the transport encodes the requested command with
\* a parameter in [0,31], so its bits 7-5 are the requested command's opcode.
C2_NeverOutOfRange ==
    \A w \in Writes :
        /\ w.value \in 0..31
        /\ High3(w.data[1]) = Command[w.cmd]

\* C3: set_rgb with any of its three values above 31 returns InvalidValue and
\* issues no transport write.
C3_RgbAllCheckedFirst ==
    (last.op = "set_rgb" /\ \E i \in 1..3 : last.args[i] > 31)
        => (last.result = InvalidValue /\ last.writes = <<>>)

C3_Witness ==
    /\ last.op = "set_rgb"
    /\ last.args[1] <= 31
    /\ last.args[2] <= 31
    /\ last.args[3] > 31
    /\ last.result = InvalidValue

\* C4: set_rgb(r, g, b) with all values in [0,31] on a transport that succeeds
\* on every write issues exactly three one-byte writes to the bound address,
\* 0x40|r then 0x60|g then 0x80|b, and returns Ok.
C4_RgbThreeWritesInOrder ==
    (/\ last.op = "set_rgb"
     /\ \A i \in 1..3 : last.args[i] <= 31
     /\ \A w \in Writes : w.ans = TOk)
        => /\ last.result = Ok
           /\ Len(last.writes) = 3
           /\ \A i \in 1..3 : last.writes[i].addr = address
           /\ last.writes[1].data = <<64 + last.args[1]>>
           /\ last.writes[2].data = <<96 + last.args[2]>>
           /\ last.writes[3].data = <<128 + last.args[3]>>

C4_Witness ==
    /\ last.op = "set_rgb"
    /\ last.args = <<17, 31, 17>>
    /\ last.result = Ok
    /\ Len(last.writes) = 3

RgbCommands == <<"SetRed", "SetGreen", "SetBlue">>

\* C5: a write the transport fails with e is the last write of its call and
\* the call returns WriteError(e); a call returns WriteError only for such a
\* write; and the writes of set_rgb are always a prefix of the red, green,
\* blue sequence, ending at the first failed write.
C5_FailureStopsAndPassesThrough ==
    /\ \A i \in 1..Len(last.writes) :
            last.writes[i].ans # TOk
                => /\ i = Len(last.writes)
                   /\ last.result = WriteError(last.writes[i].ans[2])
    /\ last.result[1] = "WriteError"
        => /\ last.writes # <<>>
           /\ last.writes[Len(last.writes)].ans = TErr(last.result[2])
    /\ last.op = "set_rgb"
        => /\ Len(last.writes) <= 3
           /\ \A i \in 1..Len(last.writes) :
                /\ last.writes[i].cmd = RgbCommands[i]
                /\ last.writes[i].data =
                        <<Command[RgbCommands[i]] + last.args[i]>>

C5_Witness ==
    /\ last.op = "set_rgb"
    /\ last.result = WriteError(2)
    /\ Len(last.writes) = 2
    /\ last.writes[1].ans = TOk

\* C6: new(i2c, a) yields a handle bound to a for a in [0,127], fails with
\* InvalidAddress(a) for a in [128,255], and writes nothing either way.
C6_NewChecksAddress ==
    last.op = "new"
        => /\ last.writes = <<>>
           /\ last.args[1] <= 127
                => (constructed /\ address = last.args[1] /\ last.result = Ok)
           /\ last.args[1] >= 128
                => (~constructed /\ last.result = InvalidAddress(last.args[1]))

C6_Witness ==
    /\ last.op = "new"
    /\ last.args = <<128>>
    /\ ~constructed
    /\ last.result = InvalidAddress(128)

\* The opcodes as the wire protocol lists them.
Opcode ==
    [SetMaxCurrent |-> 32, SetRed |-> 64, SetGreen |-> 96, SetBlue |-> 128,
     UpwardTarget |-> 160, DownwardTarget |-> 192, DimmingStart |-> 224]

\* C7: for a non-Shutdown command c and v in [0,31], build_command(c, v) is
\* opcode(c) | v: its low 5 bits are v, its high 3 bits the opcode, and no
\* other such pair gives the same byte.
C7_EncodingBitExact ==
    (pure.fn = "build_command" /\ pure.cmd # "Shutdown" /\ pure.value <= 31)
        => /\ pure.out = Opcode[pure.cmd] + pure.value
           /\ Low5(pure.out) = pure.value
           /\ High3(pure.out) = Opcode[pure.cmd]
           /\ \A c \in DOMAIN Opcode, v \in 0..31 :
                <<c, v>> # <<pure.cmd, pure.value>>
                    => build_command(c, v) # pure.out

C7_Witness ==
    /\ pure.fn = "build_command"
    /\ pure.cmd = "DimmingStart"
    /\ pure.value = 31
    /\ pure.out = 255

OpCommand ==
    [shutdown |-> 0, set_max_current |-> 32, set_red |-> 64, set_green |-> 96,
     set_blue |-> 128, set_upward_target |-> 160, set_downward_target |-> 192,
     start_dimming |-> 224]

\* C9: a single-command operation called with a value in [0,31] issues exactly
\* one write of one byte to the handle's address, carrying the operation's
\* opcode and the value, and returns Ok exactly when that write succeeds.
C9_OneWriteOneByte ==
    (last.op \in DOMAIN OpCommand /\ (last.op = "shutdown" \/ last.args[1] <= 31))
        => /\ Len(last.writes) = 1
           /\ last.writes[1].addr = address
           /\ Len(last.writes[1].data) = 1
           /\ High3(last.writes[1].data[1]) = OpCommand[last.op]
           /\ Low5(last.writes[1].data[1]) =
                    (IF last.op = "shutdown" THEN 0 ELSE last.args[1])
           /\ (last.result = Ok) <=> (last.writes[1].ans = TOk)
           /\ last.result \in {Ok} \cup {WriteError(e) : e \in Errs}

C9_Witness ==
    /\ last.op = "set_green"
    /\ last.args = <<17>>
    /\ last.result = Ok
    /\ last.writes[1].data = <<113>>

\* C10: the handle's address stays the one it was constructed with, every
\* write targets it, and it is 0x38 for new_default_address and at most 127
\* for a handle from new or new_default_address.
C10_AddressFixed ==
    constructed
        => /\ address = bound
           /\ \A w \in Writes : w.addr = bound
           /\ ctor = "new_default_address" => bound = 56
           /\ ctor \in {"new", "new_default_address"} => bound <= 127

C10_Witness ==
    /\ ctor = "new"
    /\ bound = 127
    /\ last.op = "set_rgb"
    /\ last.result[1] = "WriteError"
    /\ Len(last.writes) = 3
    /\ \A w \in Writes : w.addr = 127

====
